---------------------------- MODULE Spec2Model ----------------------------
(***************************************************************************)
(* Model of the pull-request publisher of Gerthum/llmauto                  *)
(* (src/functions.py): configure_target_repo, create_github_pr_with_code   *)
(* ("publish") and create_quick_pr ("quick_publish"), run against a model  *)
(* of the source-hosting REST API the code calls through PyGithub.         *)
(*                                                                         *)
(* Python strings are sequences of tokens.  Repository identifiers and git *)
(* remote URLs are sequences of single characters, because the code takes  *)
(* them apart character by character (split, replace, join).  Branch       *)
(* names, file names and error texts are short sequences of opaque tokens; *)
(* an f-string is the concatenation of its parts.                          *)
(***************************************************************************)
EXTENDS Naturals, Sequences, FiniteSets

(***************************************************************************)
(* Python values                                                           *)
(***************************************************************************)
\* Python's None, kept apart from the empty string.
None == <<"<None>">>

\* The empty string "".
Empty == <<>>

\* Mutant of Truthy: an `is not None` test, which lets "" through.
TruthyNotNone(v) == v # None

\* Python truthiness of an Optional[str]: None and "" are falsy.
Truthy(v) == v # None /\ v # Empty

\* pat occurs in s starting at index i.
MatchAt(s, pat, i) ==
    /\ i >= 1
    /\ i + Len(pat) - 1 <= Len(s)
    /\ \A k \in 1..Len(pat) : s[i + k - 1] = pat[k]

\* Python's `pat in s` on strings.
Contains(s, pat) == \E i \in 1..(Len(s) + 1) : MatchAt(s, pat, i)

\* Python's s.startswith(pat).
StartsWith(s, pat) == MatchAt(s, pat, 1)

RECURSIVE ReplaceFrom(_, _, _, _)
\* s[i..] with every non-overlapping occurrence of pat, scanning from the
\* left, replaced by rep.
ReplaceFrom(s, pat, rep, i) ==
    IF i > Len(s) THEN <<>>
    ELSE IF MatchAt(s, pat, i)
         THEN rep \o ReplaceFrom(s, pat, rep, i + Len(pat))
         ELSE <<s[i]>> \o ReplaceFrom(s, pat, rep, i + 1)

\* Python's s.replace(pat, rep) for a non-empty pat: ALL occurrences.
Replace(s, pat, rep) == ReplaceFrom(s, pat, rep, 1)

RECURSIVE SplitFrom(_, _, _, _)
\* The fields of s[i..] separated by the character sep; cur is the field
\* being read.
SplitFrom(s, sep, i, cur) ==
    IF i > Len(s) THEN <<cur>>
    ELSE IF s[i] = sep
         THEN <<cur>> \o SplitFrom(s, sep, i + 1, <<>>)
         ELSE SplitFrom(s, sep, i + 1, Append(cur, s[i]))

\* Python's s.split(sep) for a one-character sep.
Split(s, sep) == SplitFrom(s, sep, 1, <<>>)

RECURSIVE Join(_, _)
\* Python's sep.join(parts).
Join(parts, sep) ==
    IF Len(parts) = 0 THEN <<>>
    ELSE IF Len(parts) = 1 THEN parts[1]
    ELSE parts[1] \o sep \o Join(Tail(parts), sep)

\* Python's parts[-2:].
LastTwo(parts) ==
    IF Len(parts) <= 2 THEN parts ELSE SubSeq(parts, Len(parts) - 1, Len(parts))

\* Python's xs[:n].
Take(xs, n) == IF Len(xs) <= n THEN xs ELSE SubSeq(xs, 1, n)

(***************************************************************************)
(* Literals of the code                                                    *)
(***************************************************************************)
DotGit == <<".", "g", "i", "t">>

GitAt == <<"g", "i", "t", "@">>

GithubCom == <<"g", "i", "t", "h", "u", "b", ".", "c", "o", "m">>

\* The slice bound of branches[:5].
BranchListLimit == 5

(***************************************************************************)
(* Git-remote parsing of create_quick_pr                                   *)
(***************************************************************************)
\* url.split(':')[1].replace('.git', ''); an IndexError (no ':' in the url)
\* is swallowed by the bare except and leaves repo_name unset.
ParseSsh(url) ==
    IF Len(Split(url, ":")) < 2 THEN None
    ELSE Replace(Split(url, ":")[2], DotGit, Empty)

\* '/'.join(url.split('/')[-2:]).replace('.git', '')
ParseHttps(url) == Replace(Join(LastTwo(Split(url, "/")), <<"/">>), DotGit, Empty)

\* The repo_name the remote-URL block leaves behind: None when the git
\* command failed (out = None) or the url does not mention github.com.
ParseRemote(out) ==
    IF out = None THEN None
    ELSE IF ~Contains(out, GithubCom) THEN None
    ELSE IF StartsWith(out, GitAt) THEN ParseSsh(out)
    ELSE ParseHttps(out)


(***************************************************************************)
(* Bounds and input domains                                                *)
(***************************************************************************)
\* Most branches the repository holds before the call.
MaxBranches == 6

\* Most configure_target_repo calls before the publisher is called.
MaxConfigure == 1

Main == <<"main">>

Dev == <<"dev">>

Nope == <<"nope">>

Feat == <<"feat">>

\* f"feature/auto_generated_{timestamp}"
AutoBranch(timestamp) == <<"feature/auto_generated_", timestamp>>

\* Values datetime.now().strftime("%Y%m%d_%H%M%S") may give.
Timestamps == {"20260101_000001", "20260101_000002"}

\* The branches a repository may hold, in the order the host lists them.
BranchPool ==
    <<Main, Dev, AutoBranch("20260101_000001"), <<"b4">>, <<"b5">>, <<"b6">>,
      <<"b7">>, <<"b8">>>>

RepoA == <<"o", "/", "r">>

\* A repository whose name contains ".git" (as in my.github.io).
RepoM == <<"o", "/", "m", ".", "g", "i", "t", "h">>

RepoE == <<"e", "/", "r">>

RepoX == <<"x", "/", "x">>

\* The repositories the host knows and the token may read.
ExistingRepos == {RepoA, RepoM, RepoE}

Token == <<"ghp_tok">>

FileF == <<"f.py">>

FileG == <<"g.py">>

OldContent == <<"old">>

NewCode == <<"print('hi')">>

SshPrefix(host) == GitAt \o host \o <<":">>

HttpsPrefix(host) == <<"h", "t", "t", "p", "s", ":", "/", "/">> \o host \o <<"/">>

GitlabCom == <<"g", "i", "t", "l", "a", "b", ".", "c", "o", "m">>

\* What `git remote get-url origin` may print (stripped): both forms, two
\* hosts, with and without the ".git" suffix; None is a failed command.
RemoteUrls ==
    {pre \o repo \o suf :
        pre \in {SshPrefix(GithubCom), HttpsPrefix(GithubCom),
                 SshPrefix(GitlabCom), HttpsPrefix(GitlabCom)},
        repo \in {RepoA, RepoM},
        suf \in {Empty, DotGit}}
    \cup {GitAt \o GithubCom}

GitOutputs == RemoteUrls \cup {None}

\* The argument tuples create_github_pr_with_code is called with directly.
PublishArgs ==
    [code : {NewCode}, filename : {FileF, FileG}, repo_name : {RepoA, RepoX},
     pr_title : {<<"title">>}, pr_description : {<<"body">>},
     branch_name : {Feat, Dev}, commit_message : {<<"msg">>},
     github_token : {None, Token}, target_branch : {None, Main, Dev, Nope}]

(***************************************************************************)
(* State                                                                   *)
(***************************************************************************)
VARIABLES
    env,         \* os.environ: GITHUB_TOKEN, GITHUB_REPO, DEFAULT_BRANCH
    configured,  \* configure_target_repo calls made so far
    branches,    \* the repository's branch names, in listing order
    tip,         \* branch name -> tip commit
    tree,        \* commit -> (path -> content)
    prs,         \* the repository's pull requests, in creation order
    pc,          \* where the publisher call stands
    entry,       \* which function the caller called
    args,        \* the arguments create_github_pr_with_code runs with
    loc,         \* its locals: token, target_branch, source sha, file sha, e
    url,         \* create_quick_pr's local: the git command's output
    ops,         \* every remote operation issued by the call, with outcome
    before,      \* the repository as it was when the publisher was called
    result       \* what the caller got: a returned url or a raised error

vars ==
    <<env, configured, branches, tip, tree, prs, pc, entry, args, loc, url,
      ops, before, result>>

remote == <<branches, tip, tree, prs>>

\* f extended or overwritten at key k.
Put(f, k, v) == [x \in DOMAIN f \cup {k} |-> IF x = k THEN v ELSE f[x]]

SeqToSet(s) == {s[i] : i \in 1..Len(s)}

\* The tip commit a branch of the pool starts with.
TipOf(b) == <<"tip">> \o b

\* The new commit a file write puts on a branch.
CommitOn(b) == <<"commit">> \o b

\* The content hash (blob sha) of a file content.
ShaOf(content) == <<"blob">> \o content

NoArgs ==
    [code |-> None, filename |-> None, repo_name |-> None, pr_title |-> None,
     pr_description |-> None, branch_name |-> None, commit_message |-> None,
     github_token |-> None, target_branch |-> None]

NoLoc ==
    [token |-> None, target_branch |-> None, source_sha |-> None,
     existing_sha |-> None, e |-> None]

NoSnapshot == [branches |-> <<>>, tip |-> <<>>, tree |-> <<>>, prs |-> <<>>]

\* The repository's state, as a value.
Snapshot == [branches |-> branches, tip |-> tip, tree |-> tree, prs |-> prs]

NoResult == [status |-> "none", kind |-> "none", value |-> None]

Init ==
    /\ env \in [GITHUB_TOKEN : {None, Empty, Token},
                GITHUB_REPO : {None, Empty, RepoE, RepoX},
                DEFAULT_BRANCH : {None, Empty, Dev}]
    /\ configured = 0
    /\ \E n \in 0..MaxBranches :
          /\ branches = Take(BranchPool, n)
          /\ tip = [b \in SeqToSet(Take(BranchPool, n)) |-> TipOf(b)]
          /\ tree = [c \in {TipOf(b) : b \in SeqToSet(Take(BranchPool, n))} |->
                        [p \in {FileF} |-> OldContent]]
    /\ prs = <<>>
    /\ pc = "idle"
    /\ entry = "none"
    /\ args = NoArgs
    /\ loc = NoLoc
    /\ url = None
    /\ ops = <<>>
    /\ before = NoSnapshot
    /\ result = NoResult

(***************************************************************************)
(* Error texts                                                             *)
(***************************************************************************)
\* str(e) of the exception a failed host call raises: status and operation.
HostError(status, op) == <<status, " returned by ", op>>

TokenRequiredMsg ==
    <<"GitHub token is required. Provide it as parameter or set GITHUB_TOKEN environment variable">>

RepoNameRequiredMsg ==
    <<"Repository name not found. Set GITHUB_REPO environment variable or run from a git repository">>

\* Mutant of RepoNotFoundMsg: the transport error's text is dropped.
RepoNotFoundMsgNoCause(repo_name, e) ==
    <<"Repository '">> \o repo_name \o <<"' not found or access denied.">>

\* f"Repository '{repo_name}' not found or access denied. Error: {str(e)}"
RepoNotFoundMsg(repo_name, e) ==
    <<"Repository '">> \o repo_name \o <<"' not found or access denied. Error: ">> \o e

\* f"Branch '{target_branch}' not found. Available branches:
\*   {', '.join(branches[:5])}. Error: {str(e)}"
BranchNotFoundMsg(target_branch, names, e) ==
    <<"Branch '">> \o target_branch \o <<"' not found. Available branches: ">>
        \o Join(Take(names, BranchListLimit), <<", ">>) \o <<". Error: ">> \o e

\* f"Failed to create GitHub PR: {str(e)}"
PublishErrorMsg(e) == <<"Failed to create GitHub PR: ">> \o e

(***************************************************************************)
(* Configuration resolution                                                *)
(***************************************************************************)
\* token = github_token or os.getenv('GITHUB_TOKEN')
ResolveToken(github_token) ==
    IF Truthy(github_token) THEN github_token ELSE env.GITHUB_TOKEN

\* Mutant of ResolveTargetBranch: DEFAULT_BRANCH is never consulted.
ResolveTargetBranchNoEnv(target_branch) ==
    IF target_branch # None THEN target_branch ELSE Main

\* if target_branch is None: target_branch = os.getenv('DEFAULT_BRANCH', 'main')
ResolveTargetBranch(target_branch) ==
    IF target_branch # None THEN target_branch
    ELSE IF env.DEFAULT_BRANCH # None THEN env.DEFAULT_BRANCH
    ELSE Main

\* Mutant of ResolveQuickRepo: GITHUB_REPO tested with `is None`, so that an
\* empty value is kept and the git remote never consulted.
ResolveQuickRepoIsNone(out) ==
    IF env.GITHUB_REPO # None THEN env.GITHUB_REPO ELSE ParseRemote(out)

\* create_quick_pr's repo_name: GITHUB_REPO, else parsed from the git remote.
ResolveQuickRepo(out) ==
    IF Truthy(env.GITHUB_REPO) THEN env.GITHUB_REPO ELSE ParseRemote(out)

(***************************************************************************)
(* Steps shared by the actions                                             *)
(***************************************************************************)
\* One remote operation appended to the call's log.
Logged(op, ok, err, ref, sha, path, content, base) ==
    Append(ops, [op |-> op, ok |-> ok, err |-> err, repo |-> args.repo_name,
                 ref |-> ref, sha |-> sha, path |-> path, content |-> content,
                 base |-> base])

\* An exception reaching the outer `except Exception as e` of
\* create_github_pr_with_code: re-raised wrapped, the call is over.
Raise(e) ==
    /\ pc' = "done"
    /\ result' = [status |-> "raised", kind |-> "Exception",
                  value |-> PublishErrorMsg(e)]

\* The prologue of create_github_pr_with_code, run with arguments a: token
\* and target branch resolution, up to the first host call.
Enter(a) ==
    /\ args' = a
    /\ IF ~Truthy(ResolveToken(a.github_token))
       THEN /\ Raise(TokenRequiredMsg)
            /\ loc' = loc
       ELSE /\ pc' = "get_repo"
            /\ result' = result
            /\ loc' = [loc EXCEPT !.token = ResolveToken(a.github_token),
                                  !.target_branch =
                                      ResolveTargetBranch(a.target_branch)]

\* Mutant of CreateRefFailed: the error is swallowed and the call goes on to
\* the file step.
CreateRefFailedIgnored(e) ==
    /\ pc' = "get_contents"
    /\ result' = result

\* create_git_ref stands in no try of its own: its exception goes straight to
\* the outer handler and nothing after it runs.
CreateRefFailed(e) == Raise(e)

\* Mutant of NoRollback: the handler deletes the branch the call created.
RollbackBranch ==
    /\ branches' = SelectSeq(branches, LAMBDA b : b # args.branch_name)
    /\ tip' = [b \in DOMAIN tip \ {args.branch_name} |-> tip[b]]
    /\ tree' = tree

\* The outer handler only re-raises: what the call created so far (the new
\* branch) stays as it is.
NoRollback == UNCHANGED <<branches, tip, tree>>

\* The tree of the tip of the new branch.
CurTree == tree[tip[args.branch_name]]

\* A file write: one new commit on the new branch holding content at path.
Commit(path, content) ==
    /\ tip' = Put(tip, args.branch_name, CommitOn(args.branch_name))
    /\ tree' = Put(tree, CommitOn(args.branch_name), Put(CurTree, path, content))

\* pr.html_url of the n-th pull request of a repository.
PullUrl(repo_name, n) ==
    <<"https://github.com/">> \o repo_name \o <<"/pull/", "#">> \o [i \in 1..n |-> "i"]

(***************************************************************************)
(* Actions                                                                 *)
(***************************************************************************)
\* configure_target_repo(repo_name, default_branch, github_token)
Configure(repo_name, default_branch, github_token) ==
    /\ pc = "idle"
    /\ configured < MaxConfigure
    /\ configured' = configured + 1
    /\ env' = [GITHUB_REPO |-> repo_name,
               DEFAULT_BRANCH |-> default_branch,
               GITHUB_TOKEN |-> IF Truthy(github_token) THEN github_token
                                ELSE env.GITHUB_TOKEN]
    /\ UNCHANGED <<remote, pc, entry, args, loc, url, ops, before, result>>

\* A direct call create_github_pr_with_code(**a).
Publish(a) ==
    /\ pc = "idle"
    /\ entry' = "publish"
    /\ before' = Snapshot
    /\ Enter(a)
    /\ UNCHANGED <<env, configured, remote, url, ops>>

\* create_quick_pr(code, filename, description): names generated from the
\* clock, the repository resolved, then the call of create_github_pr_with_code.
\* out is what the git command prints; it is run only when GITHUB_REPO is
\* unset or empty.
QuickPublish(filename, timestamp, out) ==
    /\ pc = "idle"
    /\ Truthy(env.GITHUB_REPO) => out = None
    /\ entry' = "quick"
    /\ before' = Snapshot
    /\ url' = out
    /\ IF ~Truthy(ResolveQuickRepo(out))
       THEN /\ pc' = "done"
            /\ result' = [status |-> "raised", kind |-> "ValueError",
                          value |-> RepoNameRequiredMsg]
            /\ UNCHANGED <<args, loc>>
       ELSE Enter([code |-> NewCode, filename |-> filename,
                   repo_name |-> ResolveQuickRepo(out),
                   pr_title |-> <<"Add ">> \o filename,
                   pr_description |-> <<"Auto-generated code">>,
                   branch_name |-> AutoBranch(timestamp),
                   commit_message |-> <<"Add auto-generated ">> \o filename,
                   github_token |-> None, target_branch |-> None])
    /\ UNCHANGED <<env, configured, remote, ops>>

\* repo = g.get_repo(repo_name), and its except clause.
GetRepo(fault) ==
    /\ pc = "get_repo"
    /\ LET ok == args.repo_name \in ExistingRepos /\ ~fault
           e == IF args.repo_name \in ExistingRepos
                THEN HostError("403 Forbidden", "get_repo")
                ELSE HostError("404 Not Found", "get_repo")
       IN IF ok
          THEN /\ pc' = "get_branch"
               /\ ops' = Logged("get_repo", TRUE, None, None, None, None, None, None)
               /\ result' = result
          ELSE /\ Raise(RepoNotFoundMsg(args.repo_name, e))
               /\ ops' = Logged("get_repo", FALSE, e, None, None, None, None, None)
    /\ UNCHANGED <<env, configured, remote, entry, args, loc, url, before>>

\* source_branch = repo.get_branch(target_branch); on failure the handler
\* goes on to list the branches.
GetBranch(fault) ==
    /\ pc = "get_branch"
    /\ LET ok == loc.target_branch \in DOMAIN tip /\ ~fault
           e == IF loc.target_branch \in DOMAIN tip
                THEN HostError("503 Service Unavailable", "get_branch")
                ELSE HostError("404 Branch not found", "get_branch")
       IN IF ok
          THEN /\ pc' = "create_ref"
               /\ loc' = [loc EXCEPT !.source_sha = tip[loc.target_branch]]
               /\ ops' = Logged("get_branch", TRUE, None, loc.target_branch,
                                tip[loc.target_branch], None, None, None)
          ELSE /\ pc' = "list_branches"
               /\ loc' = [loc EXCEPT !.e = e]
               /\ ops' = Logged("get_branch", FALSE, e, loc.target_branch,
                                None, None, None, None)
    /\ UNCHANGED <<env, configured, remote, entry, args, url, before, result>>

\* branches = [branch.name for branch in repo.get_branches()] inside the
\* except clause, then the raise; a failed listing raises its own error.
ListBranches(fault) ==
    /\ pc = "list_branches"
    /\ LET e2 == HostError("503 Service Unavailable", "get_branches")
       IN IF ~fault
          THEN /\ Raise(BranchNotFoundMsg(loc.target_branch, branches, loc.e))
               /\ ops' = Logged("get_branches", TRUE, None, None, None, None, None, None)
          ELSE /\ Raise(e2)
               /\ ops' = Logged("get_branches", FALSE, e2, None, None, None, None, None)
    /\ UNCHANGED <<env, configured, remote, entry, args, loc, url, before>>

\* repo.create_git_ref(ref=f"refs/heads/{branch_name}", sha=source_branch.commit.sha)
CreateRef(fault) ==
    /\ pc = "create_ref"
    /\ LET ok == args.branch_name \notin DOMAIN tip /\ ~fault
           e == IF args.branch_name \in DOMAIN tip
                THEN HostError("422 Reference already exists", "create_git_ref")
                ELSE HostError("503 Service Unavailable", "create_git_ref")
       IN IF ok
          THEN /\ pc' = "get_contents"
               /\ branches' = Append(branches, args.branch_name)
               /\ tip' = Put(tip, args.branch_name, loc.source_sha)
               /\ ops' = Logged("create_git_ref", TRUE, None, args.branch_name,
                                loc.source_sha, None, None, None)
               /\ result' = result
          ELSE /\ CreateRefFailed(e)
               /\ UNCHANGED <<branches, tip>>
               /\ ops' = Logged("create_git_ref", FALSE, e, args.branch_name,
                                loc.source_sha, None, None, None)
    /\ UNCHANGED <<env, configured, tree, prs, entry, args, loc, url, before>>

\* existing_file = repo.get_contents(filename, ref=branch_name); any failure
\* falls into the bare except.
GetContents(fault) ==
    /\ pc = "get_contents"
    /\ LET ok == args.filename \in DOMAIN CurTree /\ ~fault
           e == IF args.filename \in DOMAIN CurTree
                THEN HostError("503 Service Unavailable", "get_contents")
                ELSE HostError("404 Not Found", "get_contents")
       IN IF ok
          THEN /\ pc' = "update_file"
               /\ loc' = [loc EXCEPT !.existing_sha = ShaOf(CurTree[args.filename])]
               /\ ops' = Logged("get_contents", TRUE, None, args.branch_name,
                                ShaOf(CurTree[args.filename]), args.filename,
                                None, None)
          ELSE /\ pc' = "create_file"
               /\ loc' = loc
               /\ ops' = Logged("get_contents", FALSE, e, args.branch_name,
                                None, args.filename, None, None)
    /\ UNCHANGED <<env, configured, remote, entry, args, url, before, result>>

\* repo.update_file(path, message, content, sha=existing_file.sha, branch);
\* it stands inside the same try, so its failure too falls into the bare
\* except.
UpdateFile(fault) ==
    /\ pc = "update_file"
    /\ LET ok == /\ args.filename \in DOMAIN CurTree
                 /\ ShaOf(CurTree[args.filename]) = loc.existing_sha
                 /\ ~fault
           e == HostError("409 Conflict", "update_file")
       IN IF ok
          THEN /\ pc' = "create_pull"
               /\ Commit(args.filename, args.code)
               /\ ops' = Logged("update_file", TRUE, None, args.branch_name,
                                loc.existing_sha, args.filename, args.code, None)
          ELSE /\ pc' = "create_file"
               /\ UNCHANGED <<tip, tree>>
               /\ ops' = Logged("update_file", FALSE, e, args.branch_name,
                                loc.existing_sha, args.filename, args.code, None)
    /\ UNCHANGED <<env, configured, branches, prs, entry, args, loc, url, before, result>>

\* repo.create_file(path, message, content, branch) in the bare except.
CreateFile(fault) ==
    /\ pc = "create_file"
    /\ LET ok == args.filename \notin DOMAIN CurTree /\ ~fault
           e == IF args.filename \in DOMAIN CurTree
                THEN HostError("422 sha was not supplied", "create_file")
                ELSE HostError("503 Service Unavailable", "create_file")
       IN IF ok
          THEN /\ pc' = "create_pull"
               /\ Commit(args.filename, args.code)
               /\ branches' = branches
               /\ ops' = Logged("create_file", TRUE, None, args.branch_name,
                                None, args.filename, args.code, None)
               /\ result' = result
          ELSE /\ Raise(e)
               /\ NoRollback
               /\ ops' = Logged("create_file", FALSE, e, args.branch_name,
                                None, args.filename, args.code, None)
    /\ UNCHANGED <<env, configured, prs, entry, args, loc, url, before>>

\* pr = repo.create_pull(title, body, head=branch_name, base=target_branch);
\* return pr.html_url
CreatePull(fault) ==
    /\ pc = "create_pull"
    /\ LET ok == /\ args.branch_name \in DOMAIN tip
                 /\ loc.target_branch \in DOMAIN tip
                 /\ tip[args.branch_name] # tip[loc.target_branch]
                 /\ ~fault
           e == HostError("422 Validation Failed", "create_pull")
       IN IF ok
          THEN /\ pc' = "done"
               /\ prs' = Append(prs, [head |-> args.branch_name,
                                      base |-> loc.target_branch,
                                      title |-> args.pr_title,
                                      body |-> args.pr_description])
               /\ result' = [status |-> "returned", kind |-> "str",
                             value |-> PullUrl(args.repo_name, Len(prs) + 1)]
               /\ UNCHANGED <<branches, tip, tree>>
               /\ ops' = Logged("create_pull", TRUE, None, args.branch_name,
                                None, None, None, loc.target_branch)
          ELSE /\ Raise(e)
               /\ NoRollback
               /\ prs' = prs
               /\ ops' = Logged("create_pull", FALSE, e, args.branch_name,
                                None, None, None, loc.target_branch)
    /\ UNCHANGED <<env, configured, entry, args, loc, url, before>>

Next ==
    \/ \E r \in {RepoA, RepoX}, b \in {Main, Nope}, t \in {None, Token} :
          Configure(r, b, t)
    \/ \E a \in PublishArgs : Publish(a)
    \/ \E f \in {FileF, FileG}, ts \in Timestamps, out \in GitOutputs :
          QuickPublish(f, ts, out)
    \/ \E fault \in BOOLEAN : GetRepo(fault)
    \/ \E fault \in BOOLEAN : GetBranch(fault)
    \/ \E fault \in BOOLEAN : ListBranches(fault)
    \/ \E fault \in BOOLEAN : CreateRef(fault)
    \/ \E fault \in BOOLEAN : GetContents(fault)
    \/ \E fault \in BOOLEAN : UpdateFile(fault)
    \/ \E fault \in BOOLEAN : CreateFile(fault)
    \/ \E fault \in BOOLEAN : CreatePull(fault)

Spec == Init /\ [][Next]_vars

(***************************************************************************)
(* Vocabulary of the properties                                            *)
(***************************************************************************)
\* create_github_pr_with_code was entered (directly or from create_quick_pr).
PublishCalled == args # NoArgs

Falsy == {None, Empty}

Attempted(op) == \E i \in DOMAIN ops : ops[i].op = op

Succeeded(op) == \E i \in DOMAIN ops : ops[i].op = op /\ ops[i].ok

RemoteOperations ==
    {"get_repo", "get_branch", "get_branches", "create_git_ref", "get_contents",
     "update_file", "create_file", "create_pull"}

FileAndPullOps == {"get_contents", "update_file", "create_file", "create_pull"}

FileAndPullSteps == {"get_contents", "update_file", "create_file", "create_pull"}

RemoteUnchanged == Snapshot = before

TokenPresent == args.github_token \notin Falsy \/ env.GITHUB_TOKEN \notin Falsy

PublishPrefix == <<"Failed to create GitHub PR: ">>

Raised == result.status = "raised"

Returned == result.status = "returned"

(***************************************************************************)
(* C1: a call of create_github_pr_with_code with no github_token argument  *)
(* while GITHUB_TOKEN is unset or empty ends at once in the wrapped        *)
(* "GitHub token is required" error; no remote operation is issued and the *)
(* repository is as it was.                                                *)
(***************************************************************************)
C1_NoTokenFailsBeforeAnyRemoteCall ==
    (PublishCalled /\ args.github_token = None /\ env.GITHUB_TOKEN \in Falsy) =>
        /\ pc = "done"
        /\ Raised
        /\ result.value = PublishPrefix \o TokenRequiredMsg
        /\ ops = <<>>
        /\ RemoteUnchanged

C1_Witness ==
    /\ entry = "publish"
    /\ args.github_token = None
    /\ env.GITHUB_TOKEN = Empty
    /\ pc = "done"

(***************************************************************************)
(* C2: when branch_name already exists in the repository at the call, a    *)
(* create_git_ref that is attempted fails and ends the call in failure;    *)
(* no get_contents, update_file, create_file or create_pull is ever        *)
(* issued, and the repository (the existing branch included) is unchanged. *)
(***************************************************************************)
C2_ExistingBranchStopsTheCall ==
    (PublishCalled /\ args.branch_name \in DOMAIN before.tip) =>
        /\ \A i \in DOMAIN ops :
              /\ ops[i].op \notin FileAndPullOps
              /\ ops[i].op = "create_git_ref" =>
                    /\ ~ops[i].ok
                    /\ pc = "done"
                    /\ result.value = PublishPrefix \o ops[i].err
        /\ pc \notin FileAndPullSteps
        /\ pc = "done" => Raised
        /\ RemoteUnchanged

C2_Witness ==
    /\ PublishCalled
    /\ args.branch_name \in DOMAIN before.tip
    /\ Attempted("create_git_ref")
    /\ pc = "done"

(***************************************************************************)
(* C3: when the resolved target branch does not exist, the call fails with *)
(* a message that names the missing branch and lists the first five        *)
(* branches of the repository (all of them when there are five or fewer),  *)
(* and the repository is unchanged -- whatever the branch listing does.    *)
(***************************************************************************)
\* The text the claim promises: the missing branch and the listed names.
BranchDiagnostic ==
    <<"Branch '">> \o loc.target_branch \o <<"' not found. Available branches: ">>
        \o Join(Take(before.branches, 5), <<", ">>) \o <<". Error: ">>

MissingTargetBranch ==
    /\ PublishCalled
    /\ pc = "done"
    /\ Attempted("get_branch")
    /\ loc.target_branch \notin DOMAIN before.tip

C3_MissingBranchIsDiagnosed ==
    MissingTargetBranch =>
        /\ Raised
        /\ Contains(result.value, BranchDiagnostic)
        /\ RemoteUnchanged

\* What the code does guarantee: the diagnostic whenever the listing call
\* succeeds, and an unchanged repository in every case.
C3_DiagnosedWhenListingSucceeds ==
    MissingTargetBranch =>
        /\ Raised
        /\ RemoteUnchanged
        /\ Succeeded("get_branches") =>
              result.value = PublishPrefix \o BranchDiagnostic \o loc.e

(***************************************************************************)
(* C4: the file name alone decides between update and create.  If the path *)
(* exists on the new branch, every file write of the call is an            *)
(* update_file of that path with the new content and the hash just read;   *)
(* if it does not, every file write is a create_file of that path without  *)
(* a hash -- whatever the read and the writes return.                      *)
(***************************************************************************)
\* The path is in the tree of the commit the new branch was created at.
PathExisted == args.filename \in DOMAIN tree[loc.source_sha]

C4_FilenameDecidesCreateOrUpdate ==
    Succeeded("create_git_ref") =>
        \A i \in DOMAIN ops :
            ops[i].op \in {"update_file", "create_file"} =>
                /\ ops[i].path = args.filename
                /\ ops[i].content = args.code
                /\ ops[i].ref = args.branch_name
                /\ IF PathExisted
                   THEN /\ ops[i].op = "update_file"
                        /\ ops[i].sha = ShaOf(tree[loc.source_sha][args.filename])
                   ELSE /\ ops[i].op = "create_file"
                        /\ ops[i].sha = None

\* What the code does guarantee: an update_file always carries the hash just
\* read, and a path that does not exist is only ever created.
C4_UpdateCarriesHashAbsentIsCreated ==
    Succeeded("create_git_ref") =>
        \A i \in DOMAIN ops :
            ops[i].op \in {"update_file", "create_file"} =>
                /\ ops[i].path = args.filename
                /\ ops[i].content = args.code
                /\ ops[i].op = "update_file" =>
                      /\ PathExisted
                      /\ ops[i].sha = ShaOf(tree[loc.source_sha][args.filename])
                /\ ~PathExisted => ops[i].op = "create_file" /\ ops[i].sha = None

(***************************************************************************)
(* C5: when the repository does not exist or cannot be read, the call      *)
(* fails with the wrapped "Repository '...' not found or access denied"    *)
(* error, which ends with the transport error's text; get_repo is the only *)
(* remote operation of the call and the repository is unchanged.           *)
(***************************************************************************)
RepoLookupFails ==
    /\ PublishCalled
    /\ TokenPresent
    /\ \/ args.repo_name \notin ExistingRepos
       \/ (Attempted("get_repo") /\ ~Succeeded("get_repo"))

C5_MissingRepositoryFailsCleanly ==
    RepoLookupFails =>
        /\ pc \in {"get_repo", "done"}
        /\ RemoteUnchanged
        /\ pc = "done" =>
              /\ Len(ops) = 1
              /\ ops[1].op = "get_repo"
              /\ ~ops[1].ok
              /\ Raised
              /\ result.kind = "Exception"
              /\ result.value =
                    PublishPrefix \o <<"Repository '">> \o args.repo_name
                        \o <<"' not found or access denied. Error: ">> \o ops[1].err

C5_Witness ==
    /\ pc = "done"
    /\ TokenPresent
    /\ args.repo_name = RepoX
    /\ Attempted("get_repo")

(***************************************************************************)
(* C6: the repository identifier of a call is the explicit parameter when  *)
(* one is given (create_github_pr_with_code); with none                    *)
(* (create_quick_pr) it is GITHUB_REPO when that is set to an identifier,  *)
(* and the identifier parsed from the git remote only when GITHUB_REPO is  *)
(* unset or empty; when none yields an identifier the call fails with the  *)
(* "Repository name not found" error before any remote operation.          *)
(***************************************************************************)
C6_RepositoryPrecedence ==
    /\ entry = "publish" =>
          /\ args.repo_name \in {a.repo_name : a \in PublishArgs}
          /\ url = None
          /\ \A i \in DOMAIN ops : ops[i].repo = args.repo_name
    /\ entry = "quick" =>
          /\ env.GITHUB_REPO \notin Falsy => url = None
          /\ LET expected == IF env.GITHUB_REPO \notin Falsy
                             THEN env.GITHUB_REPO
                             ELSE ParseRemote(url)
             IN IF expected \in Falsy
                THEN /\ pc = "done"
                     /\ Raised
                     /\ result.kind = "ValueError"
                     /\ result.value = RepoNameRequiredMsg
                     /\ ops = <<>>
                     /\ ~PublishCalled
                     /\ RemoteUnchanged
                ELSE /\ args.repo_name = expected
                     /\ \A i \in DOMAIN ops : ops[i].repo = expected

C6_Witness ==
    /\ entry = "quick"
    /\ env.GITHUB_REPO = Empty
    /\ url # None
    /\ Succeeded("get_repo")
    /\ args.repo_name = RepoA

(***************************************************************************)
(* C7: whichever step fails, the caller of create_github_pr_with_code gets *)
(* one error of the wrapped kind, "Failed to create GitHub PR: ...", whose *)
(* message contains the message of the error that made the step fail; and  *)
(* no url is returned after a step has failed.                             *)
(***************************************************************************)
\* The failed operations of the call, the existence probe get_contents
\* (whose failure is the "file is absent" answer) apart.
FailedSteps == {i \in DOMAIN ops : ~ops[i].ok /\ ops[i].op # "get_contents"}

\* The message of the first error of the call.
OriginalError ==
    IF FailedSteps = {} THEN TokenRequiredMsg
    ELSE ops[CHOOSE i \in FailedSteps : \A j \in FailedSteps : i <= j].err

\* The message of the last error of the call: the one the outer handler saw.
LastError ==
    IF FailedSteps = {} THEN TokenRequiredMsg
    ELSE ops[CHOOSE i \in FailedSteps : \A j \in FailedSteps : i >= j].err

C7_OneWrappedErrorWithOriginalMessage ==
    (PublishCalled /\ pc = "done") =>
        IF Returned
        THEN FailedSteps = {}
        ELSE /\ Raised
             /\ result.kind = "Exception"
             /\ StartsWith(result.value, PublishPrefix)
             /\ Contains(result.value, OriginalError)

\* What the code does guarantee: one wrapped kind, carrying the message of
\* the error its outer handler caught, and no url after a failed step.
C7_OneWrappedErrorWithLastMessage ==
    (PublishCalled /\ pc = "done") =>
        IF Returned
        THEN FailedSteps = {}
        ELSE /\ Raised
             /\ result.kind = "Exception"
             /\ StartsWith(result.value, PublishPrefix)
             /\ Contains(result.value, LastError)

(***************************************************************************)
(* C8: the base branch is the target_branch argument when given, else      *)
(* DEFAULT_BRANCH when set, else "main"; a call that returns a url created *)
(* the new branch at the tip that branch had and opened the pull request   *)
(* with head = branch_name and base = that branch.                         *)
(***************************************************************************)
ResolvedBase ==
    IF args.target_branch # None THEN args.target_branch
    ELSE IF env.DEFAULT_BRANCH # None THEN env.DEFAULT_BRANCH
    ELSE Main

C9_RemoteParsesToOwnerRepo ==
    (entry = "quick" /\ url # None) =>
        \A pre \in {SshPrefix(GithubCom), HttpsPrefix(GithubCom)},
           repo \in {RepoA, RepoM}, suf \in {Empty, DotGit} :
            url = pre \o repo \o suf => args.repo_name = repo

\* What the code does guarantee: owner/repo for names that hold no ".git".
C9_ParsesNamesWithoutDotGit ==
    (entry = "quick" /\ url # None) =>
        \A pre \in {SshPrefix(GithubCom), HttpsPrefix(GithubCom)},
           repo \in {RepoA, RepoM}, suf \in {Empty, DotGit} :
            (url = pre \o repo \o suf /\ ~Contains(repo, DotGit)) =>
                args.repo_name = repo

(***************************************************************************)
(* C10: no rollback.  Once create_git_ref has succeeded the new branch is  *)
(* in the repository in every later state of the call; a call that then    *)
(* fails ends with the branch present and no pull request; and the call    *)
(* issues none but the eight known operations (no delete, no undo).        *)
(***************************************************************************)
C10_NoRollback ==
    /\ \A i \in DOMAIN ops : ops[i].op \in RemoteOperations
    /\ Succeeded("create_git_ref") =>
          /\ args.branch_name \in DOMAIN tip
          /\ args.branch_name \in SeqToSet(branches)
          /\ args.branch_name \notin DOMAIN before.tip
          /\ \A b \in DOMAIN before.tip : b \in DOMAIN tip /\ tip[b] = before.tip[b]
          /\ (pc = "done" /\ Raised) => prs = before.prs

C10_Witness ==
    /\ Succeeded("create_git_ref")
    /\ pc = "done"
    /\ Raised
    /\ args.branch_name \in DOMAIN tip
    /\ Attempted("create_pull")

=============================================================================
